---- MODULE Spec2Model ----
(***************************************************************************)
(* RLAlgorithm (rlkit/core/rl_algorithm.py): the training loop that        *)
(* interleaves environment steps, training phases and evaluation phases.   *)
(* One action per method call made by train_online / train_batch; the      *)
(* collaborators (environment, exploration policy, replay buffer, the      *)
(* subclass's _do_training) are modelled by the part of their state the    *)
(* loop can observe.                                                       *)
(***************************************************************************)
EXTENDS Integers, Sequences, FiniteSets, TLC

\* ------------------------------------------------------------------ bounds
MaxEpochs == 3
MaxStepsPerEpoch == 5
MaxPathLength == 3
MaxUpdates == 2
MaxEpochsPerEval == 2
MaxMinSteps == 2
MaxTerminalStep == 3
\* post-epoch functions registered in post_epoch_funcs before train()
NumPostEpochFuncs == 2

\* The value of an argument that was not given (Python's None).
NoneArg == -1

Modes == {"online", "batch"}

\* train(start_epoch): a run from scratch and a resumed run.
StartEpochs == {0, 1}

\* ------------------------------------------------------------------- state
VARIABLES
    \* configuration, fixed by __init__ (env_terminal_step describes the
    \* environment passed in)
    collection_mode,
    num_epochs,
    num_env_steps_per_epoch,
    max_path_length,
    min_num_steps_before_training,
    num_updates_per_train_call,
    num_epochs_per_eval,
    env_terminal_step,
    num_epochs_per_param_save,
    save_extra_data_interval,
    \* deployment and collaborators' kinds, fixed for a run:
    \*   gpu_opt             ptu.get_mode() == "gpu_opt"
    \*   mpi_rank            MPI.COMM_WORLD.Get_rank(), NoneArg without mpi4py
    \*   do_training_raises  the subclass's _do_training can raise
    \*   table_keys_drift    the reported statistics' keys can change
    gpu_opt,
    mpi_rank,
    do_training_raises,
    table_keys_drift,
    \* control: position in train() / train_online() / train_batch()
    pc,
    start_epoch,
    epoch,
    step_i,
    observation,
    \* RLAlgorithm fields
    n_env_steps_total,
    n_train_steps_total,
    n_rollouts_total,
    current_path_builder,
    exploration_paths,
    need_to_update_eval_statistics,
    in_training_mode,
    old_table_keys,
    \* where the trainable components reside ("cpu" or "gpu")
    device,
    \* the exception that ended the run ("" while none has)
    error,
    \* logger.save_itr_params / save_extra_data calls: [rank, kind, epoch, during]
    persisted,
    \* number of 'eval' entries of gt.get_times().stamps.itrs
    eval_stamps,
    \* calls of the registered post-epoch functions: <<function, epoch>>
    hook_calls,
    \* collaborators:
    \*   env_t         steps the training environment has taken since its reset
    \*   policy_t      actions the exploration policy has given since its reset
    \*   rb_num_steps  add_sample calls = replay_buffer.num_steps_can_sample()
    \*                 (a buffer larger than the run, which evicts nothing)
    \*   rb_episodes   terminate_episode calls
    env_t,
    policy_t,
    rb_num_steps,
    rb_episodes,
    \* observers: what the last call of each kind did, and the calls of the epoch
    epoch_trace,
    last_step,
    last_train,
    last_eval,
    n_legal_train_phases,
    n_report_rows,
    \* _handle_path calls made by the subclass, and the length of the last
    \* path handed over
    n_handle_path,
    last_path_len,
    \* the arguments of the last __init__ call (NoCtorArgs when not followed)
    ctor_args,
    \* history of the run: transitions in all trajectories materialized so far,
    \* and _n_train_steps_total at the last full evaluation (0 before the first)
    n_materialized,
    n_train_at_full_eval,
    \* the copies of the loop run by the ranks of an MPI job: rank -> position
    \* and counters (empty when one process is followed on its own)
    ranks

cfgvars == <<collection_mode, num_epochs, num_env_steps_per_epoch, max_path_length,
             min_num_steps_before_training, num_updates_per_train_call,
             num_epochs_per_eval, env_terminal_step, num_epochs_per_param_save,
             save_extra_data_interval, gpu_opt, mpi_rank, do_training_raises,
             table_keys_drift>>
ctlvars == <<pc, start_epoch, epoch, step_i, observation>>
algvars == <<n_env_steps_total, n_train_steps_total, n_rollouts_total,
             current_path_builder, exploration_paths,
             need_to_update_eval_statistics, in_training_mode>>
sysvars == <<old_table_keys, device, error, persisted, eval_stamps, hook_calls>>
extvars == <<env_t, policy_t, rb_num_steps, rb_episodes>>
obsvars == <<epoch_trace, last_step, last_train, last_eval, n_legal_train_phases,
             n_report_rows>>
auxvars == <<n_handle_path, last_path_len, ctor_args, ranks>>
histvars == <<n_materialized, n_train_at_full_eval>>
vars == <<cfgvars, ctlvars, algvars, sysvars, extvars, obsvars, auxvars, histvars>>

\* -------------------------------------------------------- pure helpers
\* __init__: min_num_steps_before_training defaults to one epoch of steps.
MinNumStepsBeforeTraining(arg, steps_per_epoch) ==
    IF arg = NoneArg THEN steps_per_epoch ELSE arg

\* __init__: the update burst of the selected mode.
NumUpdatesPerTrainCall(mode, per_env_step, per_epoch) ==
    IF mode = "online" THEN per_env_step ELSE per_epoch

\* __init__ without its last assertion.
ConstructionOk_AnySaveInterval(mode, per_epoch, per_eval, per_save) ==
    /\ mode \in Modes
    /\ mode = "batch" => per_epoch # NoneArg

\* __init__: its three assertions.
ConstructionOk(mode, per_epoch, per_eval, per_save) ==
    /\ mode \in Modes
    /\ mode = "batch" => per_epoch # NoneArg
    /\ per_save % per_eval = 0

\* A strict comparison in _can_train.
CanTrain_Strict(readiness, threshold) == readiness > threshold

\* _can_train: replay_buffer.num_steps_can_sample() >= min_num_steps_before_training
CanTrain(readiness, threshold) == readiness >= threshold

\* _can_evaluate without the test of the stale flag.
CanEvaluate_IgnoresStale(paths, stale) == Len(paths) > 0

\* _can_evaluate
CanEvaluate(paths, stale) == Len(paths) > 0 /\ ~stale

\* A rollout that ends one transition after reaching max_path_length.
RolloutEnds_Late(terminal, builder_len, maxlen) == terminal \/ builder_len > maxlen

\* _take_step_in_env: the condition that ends the rollout after a step.
RolloutEnds(terminal, builder_len, maxlen) == terminal \/ builder_len >= maxlen

\* training_env.step: the environment's observation is the number of steps it
\* has taken since its last reset, so reset() returns 0 and step() never does.
EnvReset == 0
EnvStep(t) == t + 1

\* training_env.step: the terminal flag.  The environment given to __init__ is
\* deterministic: it ends an episode on its k-th step after a reset (k = 0: never).
EnvTerminal(k, t) == k # 0 /\ EnvStep(t) = k

\* An environment step that is not counted.
CountEnvStep_Missed(n) == n

\* _take_step_in_env: self._n_env_steps_total += 1
CountEnvStep(n) == n + 1

\* _handle_step: the transition recorded in the path builder.
Transition(ob, next_ob, terminal) ==
    [observation |-> ob, next_observation |-> next_ob, terminal |-> terminal]

\* _handle_rollout_ending: the transitions that get_all_stacked() turns into
\* a trajectory (none when the builder is empty).
Materialized(builder) == Len(builder)

\* A rollout ending that materializes the builder even when it is empty.
PathsAfterRolloutEnding_Always(paths, builder) == Append(paths, builder)

\* _handle_rollout_ending: the exploration-path log after the rollout ending.
PathsAfterRolloutEnding(paths, builder) ==
    IF Len(builder) > 0 THEN Append(paths, builder) ELSE paths

\* A rollout ending that keeps the materialized transitions in the builder.
BuilderAfterRolloutEnding_Kept(builder) == builder

\* _handle_rollout_ending: the path builder after the rollout ending
\* (replaced by a new one when non-empty, empty already otherwise).
BuilderAfterRolloutEnding(builder) ==
    IF Len(builder) > 0 THEN << >> ELSE builder

\* A batch loop that attempts to train after every step, as the online one.
PcAfterStep_AlwaysTrain(mode, i, n) == "train"

\* train_online / train_batch: where the loop goes after an environment step
\* (i = number of steps taken in the epoch so far).
PcAfterStep(mode, i, n) ==
    IF mode = "online" THEN "train"
    ELSE IF i < n THEN "step" ELSE "train"

\* A batch loop without the test of the epoch index.
EvalDue_EveryEpoch(mode, e, per_eval) == TRUE

\* train_online: _try_to_eval every epoch; train_batch: only when
\* epoch % num_epochs_per_eval == 0.
EvalDue(mode, e, per_eval) == mode = "online" \/ e % per_eval = 0

\* train_online / train_batch: where the loop goes after a training attempt.
PcAfterTrain(mode, i, n, e, per_eval) ==
    IF mode = "online" /\ i < n THEN "step"
    ELSE IF EvalDue(mode, e, per_eval) THEN "eval" ELSE "end_epoch"

\* An evaluate() that leaves the flag as it found it.
StaleAfterEvaluate_Kept(stale) == stale

\* evaluate: self.need_to_update_eval_statistics = True at its end.
StaleAfterEvaluate(stale) == TRUE

\* _try_to_train, the body of the update loop: one _do_training() and
\* self._n_train_steps_total += 1.  _do_training is the subclass's; what it can
\* do to this class's state is refresh the evaluation statistics (clear the flag).
DoTraining(st, clears) ==
    [n_train |-> st.n_train + 1,
     stale   |-> st.stale /\ ~clears,
     calls   |-> Append(st.calls, "do_training")]

\* An update loop that stops one update early.
RECURSIVE UpdateLoop_OneShort(_, _, _, _)
UpdateLoop_OneShort(i, n, st, clears) ==
    IF i >= n THEN st
    ELSE UpdateLoop_OneShort(i + 1, n, DoTraining(st, clears[i]), clears)

\* _try_to_train: for i in range(self.num_updates_per_train_call)
RECURSIVE UpdateLoop(_, _, _, _)
UpdateLoop(i, n, st, clears) ==
    IF i > n THEN st ELSE UpdateLoop(i + 1, n, DoTraining(st, clears[i]), clears)

\* _try_to_train, the branch taken when _can_train(): training_mode(True),
\* the update loop, training_mode(False).
TrainBurst(n, n_train, stale, clears) ==
    LET st0 == [n_train |-> n_train, stale |-> stale,
                calls |-> <<"training_mode(True)">>]
        st1 == UpdateLoop(1, n, st0, clears)
    IN  [st1 EXCEPT !.calls = Append(st1.calls, "training_mode(False)")]

\* self._old_table_keys = None
NoKeys == {}

\* _try_to_train: the `ptu.get_mode() == "gpu_opt"` block before the updates.
DeviceBeforeUpdates(gpu, dev) == IF gpu THEN "gpu" ELSE dev

\* _try_to_train: the `ptu.get_mode() == "gpu_opt"` block after the updates.
DeviceAfterUpdates(gpu, dev) == IF gpu THEN "cpu" ELSE dev

\* _try_to_train when the k-th _do_training() raises: training_mode(True),
\* k - 1 counted updates, the raising call; nothing after it runs.
RaisingBurst(k, n_train, stale, clears) ==
    LET st0 == [n_train |-> n_train, stale |-> stale,
                calls |-> <<"training_mode(True)">>]
        st1 == UpdateLoop(1, k - 1, st0, clears)
    IN  [st1 EXCEPT !.calls = Append(st1.calls, "do_training raises")]

\* A persistence test that asks for mpi4py only, not for rank 0.
IsSavingRank_Any(rank) == rank # NoneArg

\* `MPI and MPI.COMM_WORLD.Get_rank() == 0`
IsSavingRank(rank) == rank # NoneArg /\ rank = 0

\* _try_to_eval: epoch % self.save_extra_data_interval == 0
ExtraDataDue(e, interval) == e % interval = 0

\* A numbered snapshot at every call of _try_to_eval.
ParamSaveDue_Always(e, interval) == TRUE

\* _try_to_eval: epoch % self.num_epochs_per_param_save == 0
ParamSaveDue(e, interval) == e % interval = 0

Write(rank, kind, e, during) ==
    [rank |-> rank, kind |-> kind, epoch |-> e, during |-> during]

\* train: the snapshot of epoch -1, before any training.
InitialSnapshot(rank, start) ==
    IF start = 0 /\ IsSavingRank(rank)
    THEN {Write(rank, "itr_params", -1, -1)} ELSE {}

\* _try_to_eval: the checkpointing sub-step.
Checkpoints(rank, e, extra_interval, param_interval) ==
    IF IsSavingRank(rank)
    THEN (IF ExtraDataDue(e, extra_interval)
          THEN {Write(rank, "extra_data", e, e)} ELSE {})
         \cup
         (IF ParamSaveDue(e, param_interval)
          THEN {Write(rank, "itr_params", e, e)} ELSE {})
    ELSE {}

\* logger.get_table_key_set() after the records of a full evaluation: the
\* statistics' keys are the subclass's and the environment's.
BaseKeys == {"AverageReturn", "Epoch"}
TableKeySets(drift) ==
    IF drift THEN {BaseKeys, BaseKeys \cup {"Extra"}} ELSE {BaseKeys}

\* _try_to_eval: `if epoch > 0: eval_time = times_itrs['eval'][-1]` fails
\* when no 'eval' stamp has been recorded.
EvalTimeUndefined(e, stamps) == e > 0 /\ stamps = 0

\* _try_to_eval: epoch 0 replaces times_itrs['eval'] by [0].
StampsAfterEvalTime(e, stamps) == IF e > 0 THEN stamps ELSE 1

\* A schema check that never fires.
KeysChanged_Never(old, keys) == FALSE

\* _try_to_eval: the schema check on the table keys.
KeysChanged(old, keys) == old # NoKeys /\ keys # old


NoStep  == [taken |-> FALSE, observation |-> 0, next_observation |-> 0,
            terminal |-> FALSE, len |-> 0, ended |-> FALSE]
NoTrain == [attempted |-> FALSE, readiness |-> 0, updates |-> 0, calls |-> << >>]
NoEval  == [attempted |-> FALSE, epoch |-> 0, full |-> FALSE, npaths |-> 0,
            stale |-> FALSE, keys |-> NoKeys]

NoCtorArgs == [mode |-> "", per_env_step |-> NoneArg, per_epoch |-> NoneArg,
               per_eval |-> NoneArg, per_save |-> NoneArg]

\* --------------------------------------------------------------- Init
\* __init__: the fields it sets to fixed values, and the collaborators as
\* they are before train() is called.
FreshFields ==
    /\ start_epoch = 0
    /\ epoch = 0
    /\ step_i = 0
    /\ observation = EnvReset
    /\ n_env_steps_total = 0
    /\ n_train_steps_total = 0
    /\ n_rollouts_total = 0
    /\ current_path_builder = << >>
    /\ exploration_paths = << >>
    /\ need_to_update_eval_statistics = TRUE
    /\ in_training_mode \in BOOLEAN
    /\ env_t = 0
    /\ policy_t = 0
    /\ rb_num_steps = 0
    /\ rb_episodes = 0
    /\ epoch_trace = << >>
    /\ last_step = NoStep
    /\ last_train = NoTrain
    /\ last_eval = NoEval
    /\ n_legal_train_phases = 0
    /\ n_report_rows = 0
    /\ old_table_keys = NoKeys
    /\ device = "cpu"
    /\ error = ""
    /\ persisted = {}
    /\ eval_stamps = 0
    /\ hook_calls = << >>
    /\ n_handle_path = 0
    /\ last_path_len = 0
    /\ ctor_args = NoCtorArgs
    /\ n_materialized = 0
    /\ n_train_at_full_eval = 0

Constructed == pc = "constructed" /\ FreshFields

\* The state after __init__ (a construction that passed its assertions), for
\* a single process on the CPU without mpi4py, whose collaborators return
\* and whose statistics keep their keys.
Init ==
    /\ collection_mode \in Modes
    /\ num_epochs \in 0..MaxEpochs
    /\ num_env_steps_per_epoch \in 1..MaxStepsPerEpoch
    /\ max_path_length \in 1..MaxPathLength
    /\ \E arg \in {NoneArg, 0, MaxMinSteps} :
         min_num_steps_before_training =
             MinNumStepsBeforeTraining(arg, num_env_steps_per_epoch)
    /\ \E u \in {1, MaxUpdates} :
         num_updates_per_train_call =
             NumUpdatesPerTrainCall(collection_mode,
                                    IF collection_mode = "online" THEN u ELSE 1,
                                    IF collection_mode = "batch" THEN u ELSE NoneArg)
    /\ num_epochs_per_eval \in
           IF collection_mode = "batch" THEN {1, MaxEpochsPerEval} ELSE {1}
    /\ env_terminal_step \in 0..MaxTerminalStep
    /\ num_epochs_per_param_save = num_epochs_per_eval
    /\ save_extra_data_interval = num_epochs_per_eval
    /\ gpu_opt = FALSE
    /\ mpi_rank = NoneArg
    /\ do_training_raises = FALSE
    /\ table_keys_drift = FALSE
    /\ ranks = << >>
    /\ Constructed

\* ------------------------------------------------------------ actions
\* train(start_epoch) up to the first iteration of the epoch loop: pretrain(),
\* the snapshot of epoch -1, training_mode(False), the env-step counter, a
\* new PathBuilder.
Train ==
    /\ pc = "constructed"
    /\ \E s \in StartEpochs :
         /\ start_epoch' = s
         /\ epoch' = s - 1
         /\ n_env_steps_total' = s * num_env_steps_per_epoch
         /\ pc' = IF s < num_epochs THEN "start_epoch" ELSE "done"
         /\ persisted' = persisted \cup InitialSnapshot(mpi_rank, s)
    /\ in_training_mode' = FALSE
    /\ current_path_builder' = << >>
    /\ UNCHANGED <<cfgvars, auxvars, histvars, step_i, observation, n_train_steps_total,
                   n_rollouts_total, exploration_paths,
                   need_to_update_eval_statistics, old_table_keys, device, error,
                   eval_stamps, hook_calls, extvars, obsvars>>

\* The head of an epoch: _start_epoch(epoch), set_to_train_mode(training_env),
\* observation = _start_new_rollout().
StartEpoch ==
    /\ pc = "start_epoch"
    /\ epoch' = epoch + 1
    /\ exploration_paths' = << >>
    /\ observation' = EnvReset
    /\ env_t' = EnvReset
    /\ policy_t' = 0
    /\ step_i' = 0
    /\ epoch_trace' = <<"start">>
    /\ pc' = "step"
    /\ UNCHANGED <<cfgvars, auxvars, histvars, start_epoch, n_env_steps_total, n_train_steps_total,
                   n_rollouts_total, current_path_builder,
                   need_to_update_eval_statistics, in_training_mode, sysvars,
                   rb_num_steps, rb_episodes, last_step, last_train, last_eval,
                   n_legal_train_phases, n_report_rows>>

\* _take_step_in_env(observation), with _handle_step and, when the rollout
\* ends, _handle_rollout_ending and _start_new_rollout.
TakeStepInEnv ==
    /\ pc = "step"
    /\ LET terminal == EnvTerminal(env_terminal_step, env_t)
             next_ob == EnvStep(env_t)
             built   == Append(current_path_builder,
                               Transition(observation, next_ob, terminal))
             ended   == RolloutEnds(terminal, Len(built), max_path_length)
       IN    /\ n_env_steps_total' = CountEnvStep(n_env_steps_total)
             /\ rb_num_steps' = rb_num_steps + 1
             /\ IF ended
                THEN /\ rb_episodes' = rb_episodes + 1
                     /\ n_rollouts_total' = n_rollouts_total + 1
                     /\ exploration_paths' =
                            PathsAfterRolloutEnding(exploration_paths, built)
                     /\ current_path_builder' = BuilderAfterRolloutEnding(built)
                     /\ n_materialized' = n_materialized + Materialized(built)
                     /\ policy_t' = 0
                     /\ env_t' = EnvReset
                     /\ observation' = EnvReset
                ELSE /\ UNCHANGED <<rb_episodes, n_rollouts_total, exploration_paths,
                                    n_materialized>>
                     /\ current_path_builder' = built
                     /\ policy_t' = policy_t + 1
                     /\ env_t' = next_ob
                     /\ observation' = next_ob
             /\ last_step' = [taken |-> TRUE, observation |-> observation,
                              next_observation |-> next_ob, terminal |-> terminal,
                              len |-> Len(built), ended |-> ended]
    /\ step_i' = step_i + 1
    /\ epoch_trace' = Append(epoch_trace, "step")
    /\ pc' = PcAfterStep(collection_mode, step_i + 1, num_env_steps_per_epoch)
    /\ UNCHANGED <<cfgvars, auxvars, n_train_at_full_eval, start_epoch, epoch, n_train_steps_total,
                   need_to_update_eval_statistics, in_training_mode, sysvars,
                   last_train, last_eval, n_legal_train_phases, n_report_rows>>

\* _try_to_train().  An exception (range(None), or one raised by
\* _do_training) leaves the method at once and ends train().
TryToTrain ==
    /\ pc = "train"
    /\ epoch_trace' = Append(epoch_trace, "train")
    /\ IF ~CanTrain(rb_num_steps, min_num_steps_before_training)
       THEN /\ device' = DeviceAfterUpdates(gpu_opt,
                                            DeviceBeforeUpdates(gpu_opt, device))
            /\ last_train' = [attempted |-> TRUE, readiness |-> rb_num_steps,
                              updates |-> 0, calls |-> << >>]
            /\ pc' = PcAfterTrain(collection_mode, step_i,
                                  num_env_steps_per_epoch, epoch,
                                  num_epochs_per_eval)
            /\ UNCHANGED <<n_train_steps_total, need_to_update_eval_statistics,
                           in_training_mode, n_legal_train_phases, error>>
       ELSE IF num_updates_per_train_call = NoneArg
       THEN \* training_mode(True), then range(None)
            /\ device' = DeviceBeforeUpdates(gpu_opt, device)
            /\ in_training_mode' = TRUE
            /\ error' = "TypeError"
            /\ pc' = "raised"
            /\ n_legal_train_phases' = n_legal_train_phases + 1
            /\ last_train' = [attempted |-> TRUE, readiness |-> rb_num_steps,
                              updates |-> 0,
                              calls |-> <<"training_mode(True)">>]
            /\ UNCHANGED <<n_train_steps_total, need_to_update_eval_statistics>>
       ELSE \/ \E clears \in [1..num_updates_per_train_call -> BOOLEAN] :
                 LET st == TrainBurst(num_updates_per_train_call,
                                      n_train_steps_total,
                                      need_to_update_eval_statistics, clears)
                 IN  /\ n_train_steps_total' = st.n_train
                     /\ need_to_update_eval_statistics' = st.stale
                     /\ in_training_mode' = FALSE
                     /\ device' = DeviceAfterUpdates(gpu_opt,
                                       DeviceBeforeUpdates(gpu_opt, device))
                     /\ n_legal_train_phases' = n_legal_train_phases + 1
                     /\ last_train' = [attempted |-> TRUE,
                                       readiness |-> rb_num_steps,
                                       updates |-> st.n_train - n_train_steps_total,
                                       calls |-> st.calls]
                     /\ pc' = PcAfterTrain(collection_mode, step_i,
                                           num_env_steps_per_epoch, epoch,
                                           num_epochs_per_eval)
                     /\ UNCHANGED error
            \/ /\ do_training_raises
               /\ \E k \in 1..num_updates_per_train_call :
                  \E clears \in [1..(k - 1) -> BOOLEAN] :
                    LET st == RaisingBurst(k, n_train_steps_total,
                                           need_to_update_eval_statistics, clears)
                    IN  /\ n_train_steps_total' = st.n_train
                        /\ need_to_update_eval_statistics' = st.stale
                        /\ in_training_mode' = TRUE
                        /\ device' = DeviceBeforeUpdates(gpu_opt, device)
                        /\ n_legal_train_phases' = n_legal_train_phases + 1
                        /\ last_train' = [attempted |-> TRUE,
                                          readiness |-> rb_num_steps,
                                          updates |-> st.n_train - n_train_steps_total,
                                          calls |-> st.calls]
                        /\ error' = "DoTrainingError"
                        /\ pc' = "raised"
    /\ UNCHANGED <<cfgvars, auxvars, histvars, start_epoch, epoch, step_i, observation,
                   n_env_steps_total, n_rollouts_total, current_path_builder,
                   exploration_paths, old_table_keys, persisted, eval_stamps,
                   hook_calls, extvars, last_step, last_eval, n_report_rows>>

\* _try_to_eval(epoch), and the gt.stamp('eval') that follows its return.
TryToEval ==
    /\ pc = "eval"
    /\ epoch_trace' = Append(epoch_trace, "eval")
    /\ persisted' = persisted \cup Checkpoints(mpi_rank, epoch,
                                               save_extra_data_interval,
                                               num_epochs_per_param_save)
    /\ LET FullEval(keys) ==
           [attempted |-> TRUE, epoch |-> epoch, full |-> TRUE,
            npaths |-> Len(exploration_paths),
            stale |-> need_to_update_eval_statistics, keys |-> keys]
       IN
       IF ~CanEvaluate(exploration_paths, need_to_update_eval_statistics)
       THEN \* logger.log("Skipping eval for now.")
            /\ last_eval' = [attempted |-> TRUE, epoch |-> epoch, full |-> FALSE,
                             npaths |-> Len(exploration_paths),
                             stale |-> need_to_update_eval_statistics,
                             keys |-> NoKeys]
            /\ eval_stamps' = eval_stamps + 1
            /\ pc' = "end_epoch"
            /\ UNCHANGED <<need_to_update_eval_statistics, n_report_rows,
                           old_table_keys, error, n_train_at_full_eval>>
       ELSE \* evaluate(epoch), which ends by setting the flag; then the timings,
            \* the schema check and the report row
            /\ need_to_update_eval_statistics' =
                   StaleAfterEvaluate(need_to_update_eval_statistics)
            /\ n_train_at_full_eval' = n_train_steps_total
            /\ IF EvalTimeUndefined(epoch, eval_stamps)
               THEN /\ error' = "KeyError"
                    /\ pc' = "raised"
                    /\ last_eval' = FullEval(NoKeys)
                    /\ UNCHANGED <<n_report_rows, old_table_keys, eval_stamps>>
               ELSE \E keys \in TableKeySets(table_keys_drift) :
                    /\ last_eval' = FullEval(keys)
                    /\ IF KeysChanged(old_table_keys, keys)
                      THEN /\ error' = "NotImplementedError"
                           /\ pc' = "raised"
                           /\ eval_stamps' =
                                  StampsAfterEvalTime(epoch, eval_stamps)
                           /\ UNCHANGED <<n_report_rows, old_table_keys>>
                      ELSE /\ old_table_keys' = keys
                           /\ n_report_rows' = n_report_rows + 1
                           /\ eval_stamps' =
                                  StampsAfterEvalTime(epoch, eval_stamps) + 1
                           /\ pc' = "end_epoch"
                           /\ UNCHANGED error
    /\ UNCHANGED <<cfgvars, auxvars, n_materialized, start_epoch, epoch, step_i, observation,
                   n_env_steps_total, n_train_steps_total, n_rollouts_total,
                   current_path_builder, exploration_paths, in_training_mode,
                   device, hook_calls, extvars, last_step, last_train,
                   n_legal_train_phases>>

\* _end_epoch(epoch): every registered post-epoch function is called with
\* the epoch; then the loop's test for another epoch.
EndEpoch ==
    /\ pc = "end_epoch"
    /\ epoch_trace' = Append(epoch_trace, "end")
    /\ hook_calls' = hook_calls \o [f \in 1..NumPostEpochFuncs |-> <<f, epoch>>]
    /\ pc' = IF epoch + 1 < num_epochs THEN "start_epoch" ELSE "done"
    /\ UNCHANGED <<cfgvars, auxvars, histvars, start_epoch, epoch, step_i, observation, algvars,
                   old_table_keys, device, error, persisted, eval_stamps,
                   extvars, last_step, last_train, last_eval,
                   n_legal_train_phases, n_report_rows>>

Next == Train \/ StartEpoch \/ TakeStepInEnv \/ TryToTrain \/ TryToEval \/ EndEpoch

Spec == Init /\ [][Next]_vars

\* ===================================================================
\* Properties
\* ===================================================================
RECURSIVE Repeat(_, _)
Repeat(seq, n) == IF n = 0 THEN << >> ELSE seq \o Repeat(seq, n - 1)

IsPrefix(a, b) == Len(a) <= Len(b) /\ a = SubSeq(b, 1, Len(a))

Count(seq, x) == Cardinality({i \in DOMAIN seq : seq[i] = x})

\* The step / training-attempt part of an epoch, as the claims state it.
CollectTrace(mode, n) ==
    IF mode = "online" THEN Repeat(<<"step", "train">>, n)
    ELSE Repeat(<<"step">>, n) \o <<"train">>

EpochClosed == Len(epoch_trace) > 0 /\ epoch_trace[Len(epoch_trace)] = "end"

\* -------------------------------------------------------------------
\* C1: at every training attempt, update operations are performed iff
\* num_steps_can_sample() >= min_num_steps_before_training; when none are
\* performed the attempt changes none of total_train_steps, total_env_steps,
\* total_rollouts or the training/eval mode, and the loop goes on.
C1_TrainIffThreshold ==
    [][pc = "train" =>
         LET ran == \E i \in DOMAIN last_train'.calls :
                        last_train'.calls[i] = "do_training"
         IN  /\ ran <=> rb_num_steps >= min_num_steps_before_training
             /\ ran <=> n_train_steps_total' > n_train_steps_total
             /\ ~ran => /\ n_train_steps_total' = n_train_steps_total
                        /\ n_env_steps_total' = n_env_steps_total
                        /\ n_rollouts_total' = n_rollouts_total
                        /\ in_training_mode' = in_training_mode
                        /\ last_train'.calls = << >>
                        /\ pc' \in {"step", "eval", "end_epoch"}]_vars

\* A training attempt made with the readiness count exactly at the threshold,
\* which performed updates.
C1_Witness ==
    /\ last_train.attempted
    /\ min_num_steps_before_training > 0
    /\ last_train.readiness = min_num_steps_before_training
    /\ last_train.updates > 0

\* -------------------------------------------------------------------
\* C2: online, the epoch is step, attempt, step, attempt, ... with one
\* attempt after each of the num_env_steps_per_epoch steps; batch, all the
\* steps come first and one attempt follows them, before the evaluation
\* attempt and the end of the epoch.
C2_TrainAttemptSchedule ==
    Len(epoch_trace) > 0 =>
        LET body == Tail(epoch_trace)
            exp  == CollectTrace(collection_mode, num_env_steps_per_epoch)
        IN  /\ epoch_trace[1] = "start"
            /\ IF Len(body) <= Len(exp)
               THEN IsPrefix(body, exp)
               ELSE /\ IsPrefix(exp, body)
                    /\ \A i \in Len(exp) + 1 .. Len(body) :
                           body[i] \in {"eval", "end"}
            /\ pc \in {"eval", "end_epoch"} => Len(body) >= Len(exp)
            /\ EpochClosed => Len(body) > Len(exp)

\* A closed batch epoch of several steps with its single attempt and an
\* evaluation attempt.
C2_Witness ==
    /\ collection_mode = "batch"
    /\ num_env_steps_per_epoch = 3
    /\ epoch_trace = <<"start", "step", "step", "step", "train", "eval", "end">>

\* -------------------------------------------------------------------
\* The first epoch of a run started at epoch 0 with the default threshold.
FirstEpochDefault ==
    /\ pc # "constructed"
    /\ start_epoch = 0
    /\ epoch = 0
    /\ min_num_steps_before_training = num_env_steps_per_epoch

\* C3 as stated: with the default min_num_steps_before_training, no update
\* operation is performed during the first epoch of a run started at epoch 0.
C3_NoUpdateInFirstEpoch ==
    FirstEpochDefault => n_train_steps_total = 0

\* C3 amended: in that first epoch no update is performed by an attempt made
\* after fewer than num_env_steps_per_epoch steps; the attempt that follows
\* the epoch's last step finds the readiness count at the threshold and
\* performs its num_updates_per_train_call updates.
C3_FirstEpochTrainsOnlyAtEnd ==
    FirstEpochDefault =>
        /\ step_i < num_env_steps_per_epoch => n_train_steps_total = 0
        /\ pc = "train" => n_train_steps_total = 0
        /\ pc \in {"eval", "end_epoch"} \/ EpochClosed =>
               /\ n_train_steps_total = num_updates_per_train_call
               /\ n_legal_train_phases = 1
               /\ last_train.readiness = min_num_steps_before_training

\* The first epoch has ended and its last attempt trained.
C3_Witness ==
    /\ FirstEpochDefault
    /\ collection_mode = "online"
    /\ num_env_steps_per_epoch > 1
    /\ EpochClosed
    /\ n_train_steps_total > 0

\* -------------------------------------------------------------------
\* C4: every legal training phase performs exactly
\* num_updates_per_train_call updates, each counted once in
\* total_train_steps, between training_mode(True) and training_mode(False);
\* so total_train_steps = num_updates_per_train_call * (legal phases so far).
C4_UpdatesPerLegalPhase ==
    /\ n_train_steps_total = num_updates_per_train_call * n_legal_train_phases
    /\ last_train.attempted /\
          last_train.readiness >= min_num_steps_before_training =>
           /\ last_train.updates = num_updates_per_train_call
           /\ last_train.calls =
                  <<"training_mode(True)">>
                  \o Repeat(<<"do_training">>, num_updates_per_train_call)
                  \o <<"training_mode(False)">>
    /\ pc \notin {"constructed"} => ~in_training_mode

\* Several legal phases of a burst of more than one update.
C4_Witness ==
    /\ num_updates_per_train_call = 2
    /\ n_legal_train_phases = 3
    /\ n_train_steps_total = 6

\* -------------------------------------------------------------------
\* C5 as stated: after an environment step the rollout is ended iff the
\* step was terminal or the trajectory reached max_path_length; when ended,
\* the next step's observation comes from a fresh reset of environment and
\* policy; when not ended, the next step uses the step's next_observation
\* and no reset happens.
C5_NextObservation ==
    last_step.taken =>
        /\ last_step.ended <=>
               (last_step.terminal \/ last_step.len >= max_path_length)
        /\ IF last_step.ended
           THEN observation = EnvReset /\ env_t = EnvReset /\ policy_t = 0
           ELSE /\ observation = last_step.next_observation
                /\ env_t = last_step.next_observation

\* -------------------------------------------------------------------
\* One uninterrupted rollout: each transition starts where the previous
\* one ended.
Uninterrupted(path) ==
    \A i \in 1 .. Len(path) - 1 :
        path[i + 1].observation = path[i].next_observation

\* C6 as stated: every trajectory in the exploration-path log is one
\* uninterrupted rollout that ends with a terminal transition or has length
\* max_path_length.
C6_PathsUninterrupted ==
    \A p \in DOMAIN exploration_paths :
        LET path == exploration_paths[p]
        IN  /\ Uninterrupted(path)
            /\ path[Len(path)].terminal \/ Len(path) = max_path_length

\* -------------------------------------------------------------------
\* The scenario of C7: 5 steps per epoch, max_path_length 3, an environment
\* that is terminal on the 3rd step of every rollout; the first epoch's
\* steps are all taken.
C7_Scenario ==
    /\ num_env_steps_per_epoch = 5
    /\ max_path_length = 3
    /\ env_terminal_step = 3
    /\ epoch = start_epoch
    /\ pc \in {"eval", "end_epoch"} \/ EpochClosed

\* C7: the trajectory in progress when the epoch's steps are done is not
\* materialized: nothing but an environment step changes the builder or
\* adds to the log.  In the scenario the log then holds one trajectory of
\* length 3 and the builder 2 transitions.
C7_InProgressKept ==
    /\ [](C7_Scenario =>
            /\ Len(exploration_paths) = 1
            /\ Len(exploration_paths[1]) = 3
            /\ Len(current_path_builder) = 2)
    /\ [][pc \notin {"constructed", "step"} =>
            /\ current_path_builder' = current_path_builder
            /\ exploration_paths' \in {exploration_paths, << >>}]_vars

C7_Witness ==
    /\ C7_Scenario
    /\ pc = "end_epoch"
    /\ Len(exploration_paths) = 1
    /\ Len(current_path_builder) = 2

\* -------------------------------------------------------------------
\* C8: total_env_steps grows by exactly 1 on every environment step and is
\* changed by nothing else in the run (begin epoch, end epoch, training
\* phase, evaluation phase), so it never decreases.
C8_EnvStepCounter ==
    [][pc # "constructed" =>
         n_env_steps_total' =
             IF pc = "step" THEN n_env_steps_total + 1 ELSE n_env_steps_total]_vars

\* A resumed run that has finished: the counter stands at num_epochs epochs.
C8_Witness ==
    /\ pc = "done"
    /\ start_epoch = 1
    /\ num_epochs = 3
    /\ n_env_steps_total = 3 * num_env_steps_per_epoch

\* -------------------------------------------------------------------
\* C9: an evaluation attempt runs the full evaluation (and emits a report
\* row) only with a non-empty exploration-path log, which the start of every
\* epoch empties, and statistics not flagged stale; otherwise it emits no
\* row and changes nothing.  After a full evaluation the flag is true.
C9_EvalLegality ==
    [][/\ pc = "start_epoch" => exploration_paths' = << >>
       /\ pc = "eval" =>
            LET full == last_eval'.full
            IN  /\ full => /\ Len(exploration_paths) > 0
                           /\ ~need_to_update_eval_statistics
                           /\ need_to_update_eval_statistics'
                /\ ~full => /\ Len(exploration_paths) = 0
                               \/ need_to_update_eval_statistics
                            /\ n_report_rows' = n_report_rows
                            /\ need_to_update_eval_statistics' =
                                   need_to_update_eval_statistics
                            /\ pc' = "end_epoch"
       /\ pc # "eval" => n_report_rows' = n_report_rows]_vars

\* A second full evaluation has run, and the flag is stale again.
C9_Witness ==
    /\ last_eval.attempted
    /\ last_eval.full
    /\ n_report_rows = 2
    /\ need_to_update_eval_statistics

\* -------------------------------------------------------------------
\* C10: online, every epoch has one evaluation attempt, after its last
\* training attempt; batch, epoch e has one iff e mod num_epochs_per_eval = 0,
\* after its single training attempt; never more than one per epoch, and it
\* precedes the end of the epoch.
C10_EvalAttemptSchedule ==
    /\ Count(epoch_trace, "eval") <= 1
    /\ \A i \in DOMAIN epoch_trace :
           epoch_trace[i] = "eval" =>
               /\ i > 1 /\ epoch_trace[i - 1] = "train"
               /\ \A j \in i + 1 .. Len(epoch_trace) : epoch_trace[j] = "end"
    /\ EpochClosed =>
           (Count(epoch_trace, "eval") = 1 <=>
                (collection_mode = "online"
                 \/ epoch % num_epochs_per_eval = 0))

\* A closed batch epoch whose index is no multiple of num_epochs_per_eval:
\* it has no evaluation attempt.
C10_Witness ==
    /\ collection_mode = "batch"
    /\ num_epochs_per_eval = 2
    /\ epoch = 1
    /\ EpochClosed
    /\ Count(epoch_trace, "eval") = 0

\* ===================================================================
\* The exclusive-accelerator mode and update operations that raise
\* ===================================================================
\* The state after __init__ when ptu's mode may be "gpu_opt" and
\* _do_training may raise.
InitGpu ==
    /\ collection_mode \in Modes
    /\ num_epochs = 2
    /\ num_env_steps_per_epoch \in 1..2
    /\ max_path_length = 2
    /\ min_num_steps_before_training = MinNumStepsBeforeTraining(1, num_env_steps_per_epoch)
    /\ \E u \in {1, MaxUpdates} :
         num_updates_per_train_call =
             NumUpdatesPerTrainCall(collection_mode,
                                    IF collection_mode = "online" THEN u ELSE 1,
                                    IF collection_mode = "batch" THEN u ELSE NoneArg)
    /\ num_epochs_per_eval = 1
    /\ env_terminal_step \in {0, 1}
    /\ num_epochs_per_param_save = 1
    /\ save_extra_data_interval = 1
    /\ gpu_opt \in BOOLEAN
    /\ mpi_rank = NoneArg
    /\ do_training_raises \in BOOLEAN
    /\ table_keys_drift = FALSE
    /\ ranks = << >>
    /\ Constructed

SpecGpu == InitGpu /\ [][Next]_vars

\* -------------------------------------------------------------------
\* C11 as stated: in exclusive-accelerator mode the trainable components are
\* on the default device after every training phase, on every exit path
\* (no update ran, all updates completed, an update raised partway), so no
\* environment step, evaluation or later phase starts with the components on
\* the accelerator.  Every state of the model lies between two handlers, so
\* the components must be on the default device in every state.
C11_ReleasedOnEveryExit == gpu_opt => device = "cpu"

\* ===================================================================
\* An MPI job: every rank runs its own copy of the loop
\* ===================================================================
\* highest rank of the job (MPI.COMM_WORLD.Get_size() - 1)
MaxRank == 1

\* A rank's copy right after __init__: position and counters.  What the
\* handlers do to paths, statistics and timing stays within the rank and
\* decides nothing about persistence, which precedes _can_evaluate().
FreshRank ==
    [pc |-> "constructed", epoch |-> 0, step_i |-> 0, n_env_steps_total |-> 0,
     n_train_steps_total |-> 0, rb_num_steps |-> 0]

InitRanks ==
    /\ collection_mode \in Modes
    /\ num_epochs = 2
    /\ num_env_steps_per_epoch \in 1..2
    /\ max_path_length = 2
    /\ min_num_steps_before_training =
           MinNumStepsBeforeTraining(1, num_env_steps_per_epoch)
    /\ num_updates_per_train_call = NumUpdatesPerTrainCall(collection_mode, 1, 1)
    /\ num_epochs_per_eval = 1
    /\ env_terminal_step = 0
    /\ num_epochs_per_param_save \in 1..2
    /\ save_extra_data_interval \in 1..2
    /\ gpu_opt = FALSE
    /\ mpi_rank = NoneArg
    /\ do_training_raises = FALSE
    /\ table_keys_drift = FALSE
    /\ ranks = [r \in 0..MaxRank |-> FreshRank]
    /\ Constructed

\* Everything a rank's step leaves alone: the process followed on its own.
soloVars == <<cfgvars, ctlvars, algvars, old_table_keys, device, error,
              eval_stamps, hook_calls, extvars, obsvars, n_handle_path,
              last_path_len, ctor_args, histvars>>

\* train(0) on rank r, up to the epoch loop.
RankTrain ==
    \E r \in DOMAIN ranks :
        /\ ranks[r].pc = "constructed"
        /\ persisted' = persisted \cup InitialSnapshot(r, 0)
        /\ ranks' = [ranks EXCEPT ![r].pc = IF 0 < num_epochs THEN "start_epoch"
                                            ELSE "done",
                                  ![r].epoch = -1,
                                  ![r].n_env_steps_total = 0]
        /\ UNCHANGED soloVars

\* The head of an epoch on rank r.
RankStartEpoch ==
    \E r \in DOMAIN ranks :
        /\ ranks[r].pc = "start_epoch"
        /\ ranks' = [ranks EXCEPT ![r].pc = "step",
                                  ![r].epoch = @ + 1,
                                  ![r].step_i = 0]
        /\ UNCHANGED <<soloVars, persisted>>

\* _take_step_in_env() on rank r.
RankTakeStepInEnv ==
    \E r \in DOMAIN ranks :
        /\ ranks[r].pc = "step"
        /\ ranks' = [ranks EXCEPT
                       ![r].pc = PcAfterStep(collection_mode, ranks[r].step_i + 1,
                                             num_env_steps_per_epoch),
                       ![r].step_i = @ + 1,
                       ![r].n_env_steps_total = CountEnvStep(@),
                       ![r].rb_num_steps = @ + 1]
        /\ UNCHANGED <<soloVars, persisted>>

\* _try_to_train() on rank r.
RankTryToTrain ==
    \E r \in DOMAIN ranks :
        /\ ranks[r].pc = "train"
        /\ ranks' = [ranks EXCEPT
                       ![r].pc = PcAfterTrain(collection_mode, ranks[r].step_i,
                                              num_env_steps_per_epoch, ranks[r].epoch,
                                              num_epochs_per_eval),
                       ![r].n_train_steps_total =
                           IF CanTrain(ranks[r].rb_num_steps,
                                       min_num_steps_before_training)
                           THEN @ + num_updates_per_train_call ELSE @]
        /\ UNCHANGED <<soloVars, persisted>>

\* _try_to_eval(epoch) on rank r: the checkpointing sub-step, then the
\* evaluation or its skipping.
RankTryToEval ==
    \E r \in DOMAIN ranks :
        /\ ranks[r].pc = "eval"
        /\ persisted' = persisted \cup Checkpoints(r, ranks[r].epoch,
                                                   save_extra_data_interval,
                                                   num_epochs_per_param_save)
        /\ ranks' = [ranks EXCEPT ![r].pc = "end_epoch"]
        /\ UNCHANGED soloVars

\* _end_epoch(epoch) on rank r, and the loop's test for another epoch.
RankEndEpoch ==
    \E r \in DOMAIN ranks :
        /\ ranks[r].pc = "end_epoch"
        /\ ranks' = [ranks EXCEPT ![r].pc = IF ranks[r].epoch + 1 < num_epochs
                                            THEN "start_epoch" ELSE "done"]
        /\ UNCHANGED <<soloVars, persisted>>

NextRanks ==
    \/ RankTrain
    \/ RankStartEpoch
    \/ RankTakeStepInEnv
    \/ RankTryToTrain
    \/ RankTryToEval
    \/ RankEndEpoch

SpecRanks == InitRanks /\ [][NextRanks]_vars

\* -------------------------------------------------------------------
\* C12: in a multi-process run whose ranks interleave arbitrarily, every
\* persistence write (the snapshot of epoch -1, numbered snapshots, extra
\* data) is rank 0's; no other rank ever writes, so no two processes write.
C12_OnlyRankZeroPersists == \A w \in persisted : w.rank = 0

\* Rank 0 has written the initial snapshot and a checkpoint and is still
\* inside its loop, while another rank has finished its run, having taken
\* environment steps and performed updates.
C12_Witness ==
    /\ \E w \in persisted : w.kind = "itr_params" /\ w.epoch = -1
    /\ \E w \in persisted : w.kind = "extra_data"
    /\ ranks # << >> /\ ranks[0].pc = "step"
    /\ \E r \in DOMAIN ranks :
         /\ r # 0
         /\ ranks[r].pc = "done"
         /\ ranks[r].n_env_steps_total > 0
         /\ ranks[r].n_train_steps_total > 0

\* ===================================================================
\* Checkpointing under MPI
\* ===================================================================
\* The state after an __init__ that passed its assertions, in a process that
\* may be a rank of an MPI job, with any save intervals.
InitSave ==
    /\ collection_mode \in Modes
    /\ num_epochs = 4
    /\ num_env_steps_per_epoch \in 1..2
    /\ max_path_length = 2
    /\ min_num_steps_before_training =
           MinNumStepsBeforeTraining(NoneArg, num_env_steps_per_epoch)
    /\ num_updates_per_train_call = NumUpdatesPerTrainCall(collection_mode, 1, 1)
    /\ num_epochs_per_eval \in 1..MaxEpochsPerEval
    /\ env_terminal_step = 0
    /\ num_epochs_per_param_save \in {1, 2, 4}
    /\ save_extra_data_interval \in 1..3
    /\ ConstructionOk(collection_mode, num_updates_per_train_call,
                      num_epochs_per_eval, num_epochs_per_param_save)
    /\ gpu_opt = FALSE
    /\ mpi_rank \in {NoneArg, 0, 1}
    /\ do_training_raises = FALSE
    /\ table_keys_drift = FALSE
    /\ ranks = << >>
    /\ Constructed

SpecSave == InitSave /\ [][Next]_vars

\* Epoch e of the run is past the place of its _try_to_eval call.
PastEval(e) ==
    /\ start_epoch <= e
    /\ \/ e < epoch
       \/ e = epoch /\ pc \in {"end_epoch", "start_epoch", "done"}
       \/ e = epoch /\ pc = "raised" /\ error \in {"KeyError", "NotImplementedError"}

\* -------------------------------------------------------------------
\* C13: on rank 0, for every epoch e of the run with
\* e mod num_epochs_per_param_save = 0 a snapshot numbered e is persisted
\* during epoch e, in both modes and whether or not the evaluation is legal;
\* no numbered snapshot is persisted in an epoch that is not a multiple.
C13_NumberedSnapshots ==
    mpi_rank = 0 =>
        /\ \A e \in 0..num_epochs :
               (PastEval(e) /\ e % num_epochs_per_param_save = 0) =>
                   [rank |-> 0, kind |-> "itr_params", epoch |-> e, during |-> e]
                       \in persisted
        /\ \A w \in persisted :
               (w.kind = "itr_params" /\ w.during >= 0) =>
                   /\ w.epoch = w.during
                   /\ w.during % num_epochs_per_param_save = 0

\* Batch mode, evaluation and snapshot every second epoch: epoch 2 was
\* snapshotted although its evaluation was skipped, epoch 1 was not.
C13_Witness ==
    /\ mpi_rank = 0
    /\ collection_mode = "batch"
    /\ num_epochs_per_param_save = 2
    /\ epoch = 2 /\ pc = "end_epoch"
    /\ last_eval.epoch = 2 /\ ~last_eval.full
    /\ \E w \in persisted : w.kind = "itr_params" /\ w.epoch = 2 /\ w.during = 2
    /\ ~ \E w \in persisted : w.kind = "itr_params" /\ w.epoch = 1

\* -------------------------------------------------------------------
\* C14 as stated: on rank 0, for every epoch e of the run with
\* e mod save_extra_data_interval = 0 the extra data is persisted during
\* epoch e, in both modes, for any save_extra_data_interval and
\* num_epochs_per_eval.
C14_ExtraDataEveryInterval ==
    mpi_rank = 0 =>
        \A e \in 0..num_epochs :
            (PastEval(e) /\ e % save_extra_data_interval = 0) =>
                [rank |-> 0, kind |-> "extra_data", epoch |-> e, during |-> e]
                    \in persisted

\* ===================================================================
\* Report rows whose key set can change
\* ===================================================================
InitReport ==
    /\ collection_mode \in Modes
    /\ num_epochs = 3
    /\ num_env_steps_per_epoch \in 1..2
    /\ max_path_length = 1
    /\ min_num_steps_before_training = MinNumStepsBeforeTraining(0, num_env_steps_per_epoch)
    /\ num_updates_per_train_call = NumUpdatesPerTrainCall(collection_mode, 1, 1)
    /\ num_epochs_per_eval = 1
    /\ env_terminal_step \in {0, 1}
    /\ num_epochs_per_param_save = 1
    /\ save_extra_data_interval = 1
    /\ gpu_opt = FALSE
    /\ mpi_rank \in {NoneArg, 0}
    /\ do_training_raises = FALSE
    /\ table_keys_drift \in BOOLEAN
    /\ ranks = << >>
    /\ Constructed

SpecReport == InitReport /\ [][Next]_vars

\* -------------------------------------------------------------------
\* C15: when a full evaluation produces a report whose key set differs from
\* the one remembered from the previous reported epoch, the run halts with a
\* fatal error: no row for that epoch, the remembered key set stays, and
\* neither end-of-epoch nor any later epoch runs.  When the key set equals
\* the remembered one, or none was remembered, the row is emitted and the
\* key set is remembered.
C15_SchemaDriftIsFatal ==
    [][ /\ (pc = "eval" /\ last_eval'.full /\ error' # "KeyError") =>
              IF old_table_keys # NoKeys /\ last_eval'.keys # old_table_keys
              THEN /\ pc' = "raised"
                   /\ error' = "NotImplementedError"
                   /\ n_report_rows' = n_report_rows
                   /\ old_table_keys' = old_table_keys
                   /\ hook_calls' = hook_calls
              ELSE /\ pc' = "end_epoch"
                   /\ error' = ""
                   /\ n_report_rows' = n_report_rows + 1
                   /\ old_table_keys' = last_eval'.keys
        /\ pc = "raised" => UNCHANGED vars
      ]_vars

\* A run halted by a changed key set after it had emitted a row.
C15_Witness ==
    /\ pc = "raised"
    /\ error = "NotImplementedError"
    /\ n_report_rows > 0
    /\ old_table_keys # NoKeys
    /\ last_eval.keys # old_table_keys

\* ===================================================================
\* Whole paths handed to _handle_path
\* ===================================================================
\* _handle_path calls in a run, and the longest path handed over
MaxHandlePath == 2
MaxHandledLen == 2

\* A path of n transitions as the caller of _handle_path holds it: one
\* rollout from a reset, terminal at its last transition.
HandedPath(n) == [i \in 1..n |-> Transition(i - 1, i, i = n)]

\* _handle_path(path), called by the subclass before train() or between two
\* environment steps: _handle_step for every transition of the path, then
\* _handle_rollout_ending().
HandlePath ==
    /\ pc \in {"constructed", "step"}
    /\ n_handle_path < MaxHandlePath
    /\ \E n \in 0..MaxHandledLen :
         LET built == current_path_builder \o HandedPath(n)
         IN  /\ rb_num_steps' = rb_num_steps + n
             /\ rb_episodes' = rb_episodes + 1
             /\ n_rollouts_total' = n_rollouts_total + 1
             /\ exploration_paths' = PathsAfterRolloutEnding(exploration_paths, built)
             /\ current_path_builder' = BuilderAfterRolloutEnding(built)
             /\ last_path_len' = n
             /\ n_materialized' = n_materialized + Materialized(built)
    /\ n_handle_path' = n_handle_path + 1
    /\ UNCHANGED <<cfgvars, ctlvars, n_env_steps_total, n_train_steps_total,
                   need_to_update_eval_statistics, in_training_mode, sysvars,
                   env_t, policy_t, obsvars, ctor_args, ranks,
                   n_train_at_full_eval>>

InitPath ==
    /\ collection_mode \in Modes
    /\ num_epochs = 2
    /\ num_env_steps_per_epoch \in 1..2
    /\ max_path_length \in 1..2
    /\ min_num_steps_before_training = MinNumStepsBeforeTraining(NoneArg, num_env_steps_per_epoch)
    /\ num_updates_per_train_call = NumUpdatesPerTrainCall(collection_mode, 1, 1)
    /\ num_epochs_per_eval = 1
    /\ env_terminal_step \in {0, 2}
    /\ num_epochs_per_param_save = 1
    /\ save_extra_data_interval = 1
    /\ gpu_opt = FALSE
    /\ mpi_rank = NoneArg
    /\ do_training_raises = FALSE
    /\ table_keys_drift = FALSE
    /\ ranks = << >>
    /\ Constructed

NextPath == Next \/ HandlePath

SpecPath == InitPath /\ [][NextPath]_vars

\* -------------------------------------------------------------------
\* C16: whenever rollout ending runs (from an environment step or from
\* _handle_path) the replay buffer is told of an episode boundary and
\* total_rollouts grows by exactly 1; a trajectory is appended to the
\* exploration-path log and the builder replaced by an empty one iff the
\* builder is non-empty: an empty builder materializes and logs nothing, and
\* the rollout counter still grows.
C16_RolloutEnding ==
    [][ LET by_path == n_handle_path' # n_handle_path
            by_step == pc = "step" /\ step_i' # step_i /\ last_step'.ended
            \* the length of the builder when the rollout ending starts
            built   == IF by_path
                       THEN Len(current_path_builder) + last_path_len'
                       ELSE Len(current_path_builder) + 1
        IN  IF by_path \/ by_step
            THEN /\ rb_episodes' = rb_episodes + 1
                 /\ n_rollouts_total' = n_rollouts_total + 1
                 /\ current_path_builder' = << >>
                 /\ IF built > 0
                    THEN /\ Len(exploration_paths') = Len(exploration_paths) + 1
                         /\ Len(exploration_paths'[Len(exploration_paths')]) = built
                         /\ SubSeq(exploration_paths', 1, Len(exploration_paths))
                                = exploration_paths
                    ELSE exploration_paths' = exploration_paths
            ELSE /\ rb_episodes' = rb_episodes
                 /\ n_rollouts_total' = n_rollouts_total
      ]_vars

\* An empty path was handed over while the builder was empty: a rollout
\* was counted and nothing was logged.
C16_Witness ==
    /\ pc = "constructed"
    /\ n_handle_path = 1
    /\ last_path_len = 0
    /\ n_rollouts_total = 1
    /\ rb_episodes = 1
    /\ exploration_paths = << >>
    /\ current_path_builder = << >>

\* ===================================================================
\* Construction
\* ===================================================================
\* collection_mode arguments: the two modes and a string that is neither
ModeArgs == Modes \cup {"offline"}

\* Before __init__: no field is set yet; the fields __init__ sets to fixed
\* values are shown at those values.
InitCtor ==
    /\ pc = "new"
    /\ collection_mode = ""
    /\ num_epochs = NoneArg
    /\ num_env_steps_per_epoch = NoneArg
    /\ max_path_length = NoneArg
    /\ min_num_steps_before_training = NoneArg
    /\ num_updates_per_train_call = NoneArg
    /\ num_epochs_per_eval = NoneArg
    /\ num_epochs_per_param_save = NoneArg
    /\ save_extra_data_interval = NoneArg
    /\ env_terminal_step \in {0, 1}
    /\ gpu_opt = FALSE
    /\ mpi_rank \in {NoneArg, 0}
    /\ do_training_raises = FALSE
    /\ table_keys_drift = FALSE
    /\ ranks = << >>
    /\ FreshFields

\* __init__(...): the assertions, then the configuration fields.
Construct ==
    /\ pc = "new"
    /\ \E mode \in ModeArgs, per_env_step \in {NoneArg, 1},
          per_epoch \in {NoneArg, 1}, per_eval \in {1, 10},
          per_save \in {1, 25, 100}, steps \in 1..2, min \in {NoneArg, 0} :
         /\ ctor_args' = [mode |-> mode, per_env_step |-> per_env_step,
                          per_epoch |-> per_epoch, per_eval |-> per_eval,
                          per_save |-> per_save]
         /\ IF ConstructionOk(mode, per_epoch, per_eval, per_save)
            THEN /\ collection_mode' = mode
                 /\ num_epochs' = 2
                 /\ num_env_steps_per_epoch' = steps
                 /\ max_path_length' = 2
                 /\ min_num_steps_before_training' =
                        MinNumStepsBeforeTraining(min, steps)
                 /\ num_updates_per_train_call' =
                        NumUpdatesPerTrainCall(mode, per_env_step, per_epoch)
                 /\ num_epochs_per_eval' = per_eval
                 /\ num_epochs_per_param_save' = per_save
                 /\ save_extra_data_interval' = per_save
                 /\ pc' = "constructed"
                 /\ UNCHANGED error
            ELSE /\ error' = "AssertionError"
                 /\ pc' = "raised"
                 /\ UNCHANGED <<collection_mode, num_epochs,
                                num_env_steps_per_epoch, max_path_length,
                                min_num_steps_before_training,
                                num_updates_per_train_call, num_epochs_per_eval,
                                num_epochs_per_param_save,
                                save_extra_data_interval>>
    /\ UNCHANGED <<env_terminal_step, gpu_opt, mpi_rank, do_training_raises,
                   table_keys_drift, start_epoch, epoch, step_i, observation,
                   algvars, old_table_keys, device, persisted, eval_stamps,
                   hook_calls, extvars, obsvars, n_handle_path, last_path_len,
                   ranks, histvars>>

NextCtor == Construct \/ Next

SpecCtor == InitCtor /\ [][NextCtor]_vars

\* -------------------------------------------------------------------
\* C17: construction fails, before any loop iteration or counter change,
\* when collection_mode is neither 'online' nor 'batch', when it is 'batch'
\* and num_updates_per_epoch is not given, and when
\* num_epochs_per_param_save mod num_epochs_per_eval # 0 (eval 10, save 25);
\* it succeeds when none of them holds (eval 10, save 100).
C17_ConstructionFailures ==
    [][ /\ pc = "new" =>
              LET a == ctor_args'
              IN  IF \/ a.mode \notin {"online", "batch"}
                     \/ a.mode = "batch" /\ a.per_epoch = NoneArg
                     \/ a.per_save % a.per_eval # 0
                  THEN /\ pc' = "raised"
                       /\ error' = "AssertionError"
                       /\ UNCHANGED <<cfgvars, start_epoch, epoch, step_i, algvars,
                                      extvars, obsvars, persisted>>
                  ELSE /\ pc' = "constructed"
                       /\ error' = ""
                       /\ collection_mode' = a.mode
                       /\ num_epochs_per_eval' = a.per_eval
                       /\ num_epochs_per_param_save' = a.per_save
        /\ (pc = "raised" /\ error = "AssertionError") => UNCHANGED vars
      ]_vars

\* __init__(num_epochs_per_eval=10, num_epochs_per_param_save=25) has failed.
C17_Witness ==
    /\ pc = "raised"
    /\ error = "AssertionError"
    /\ ctor_args.mode = "online"
    /\ ctor_args.per_eval = 10
    /\ ctor_args.per_save = 25
    /\ n_env_steps_total = 0
    /\ epoch_trace = << >>

\* -------------------------------------------------------------------
\* C18 as stated: construction validates the update burst of the selected
\* mode in both modes: online mode without an updates-per-environment-step
\* value (None) is rejected at construction, as batch mode without an
\* updates-per-epoch value is.
C18_OnlineBurstValidated ==
    (ctor_args.mode = "online" /\ ctor_args.per_env_step = NoneArg) =>
        (pc = "raised" /\ error = "AssertionError")

\* ===================================================================
\* The run as a whole
\* ===================================================================
\* The post-epoch calls of epochs from..to, in order.
RECURSIVE HookCalls(_, _)
HookCalls(from, to) ==
    IF from > to THEN << >>
    ELSE [f \in 1..NumPostEpochFuncs |-> <<f, from>>] \o HookCalls(from + 1, to)

\* -------------------------------------------------------------------
\* C19 as stated: provided every collaborator call returns and no schema
\* drift occurs, train(start_epoch) reaches Done: the epoch body runs once for
\* each epoch start_epoch .. num_epochs - 1 in increasing order (none when
\* start_epoch >= num_epochs), each epoch being begin-epoch, exactly
\* num_env_steps_per_epoch environment steps, and end-of-epoch with every
\* registered post-epoch hook called once with the epoch index.  As a
\* property of finite runs: train() is never left by an exception, the
\* epochs closed so far are start_epoch .. epoch with their hooks, and Done
\* is entered only after epoch num_epochs - 1.
C19_RunsEveryEpochToDone ==
    /\ pc # "raised"
    /\ EpochClosed =>
           /\ epoch_trace[1] = "start"
           /\ Count(epoch_trace, "step") = num_env_steps_per_epoch
           /\ Count(epoch_trace, "start") = 1
           /\ Count(epoch_trace, "end") = 1
           /\ hook_calls = HookCalls(start_epoch, epoch)
    /\ pc = "done" =>
           /\ hook_calls = HookCalls(start_epoch, num_epochs - 1)
           /\ start_epoch < num_epochs => epoch = num_epochs - 1

\* -------------------------------------------------------------------
\* C20 as stated: whenever a full evaluation report is produced its eval
\* time is defined: zero, with the stamp seeded, in the very first epoch of
\* the run, and the last recorded eval stamp in every later reporting epoch;
\* for runs started at epoch 0 and for runs resumed at start_epoch > 0, in
\* both modes.
C20_EvalTimeDefined ==
    (last_eval.attempted /\ last_eval.full) =>
        /\ ~(pc = "raised" /\ error = "KeyError")
        /\ eval_stamps > 0

\* -------------------------------------------------------------------
\* C21: transition conservation.  Between the environment steps of a run,
\* the steps taken in the run, the add_sample calls on the replay buffer,
\* and the transitions of all trajectories materialized so far plus those
\* of the in-progress builder are the same number, also after the
\* exploration-path log was emptied at an epoch boundary; the builder is
\* shorter than max_path_length, and every materialized trajectory has a
\* length between 1 and max_path_length.
C21_TransitionConservation ==
    LET taken == n_env_steps_total - start_epoch * num_env_steps_per_epoch
    IN  /\ taken = rb_num_steps
        /\ taken = n_materialized + Len(current_path_builder)
        /\ Len(current_path_builder) < max_path_length
        /\ \A p \in DOMAIN exploration_paths :
               /\ Len(exploration_paths[p]) >= 1
               /\ Len(exploration_paths[p]) <= max_path_length

\* A later epoch of a resumed run: the log was emptied at the epoch
\* boundary, trajectories were materialized before it, and a rollout that
\* began in the previous epoch is still in the builder.
C21_Witness ==
    /\ start_epoch = 1
    /\ epoch = 2
    /\ pc = "step"
    /\ step_i = 0
    /\ exploration_paths = << >>
    /\ n_materialized > 0
    /\ Len(current_path_builder) > 0

\* -------------------------------------------------------------------
\* C22: the orchestrator never clears the stale-statistics flag: it is true
\* at construction, every full evaluation sets it to true, and it goes from
\* true to false only during update operations.  Hence no full evaluation
\* happens before the first update of the run, and at least one update is
\* performed between two consecutive full evaluations.
C22_OnlyUpdatesClearStaleFlag ==
    [][ /\ pc = "constructed" => need_to_update_eval_statistics
        /\ (need_to_update_eval_statistics /\ ~need_to_update_eval_statistics') =>
               /\ pc = "train"
               /\ n_train_steps_total' > n_train_steps_total
        /\ (pc = "eval" /\ last_eval'.full) =>
               /\ ~need_to_update_eval_statistics
               /\ need_to_update_eval_statistics'
               /\ n_train_steps_total > n_train_at_full_eval
        /\ (pc = "eval" /\ ~last_eval'.full) =>
               need_to_update_eval_statistics' = need_to_update_eval_statistics
      ]_vars

\* The second full evaluation of a run has just reported.
C22_Witness ==
    /\ pc = "end_epoch"
    /\ last_eval.full
    /\ n_report_rows >= 2
    /\ n_train_at_full_eval = n_train_steps_total
    /\ need_to_update_eval_statistics

====
